---- MODULE Spec2Model ----
(***************************************************************************)
(* Model of the ThriveProtocol native reward contract (CosmWasm).          *)
(* The contract's storage is three items: state (the owner), token_denom   *)
(* and the balances map.  Every entry point is a function of the storage   *)
(* and the message; it is modelled as an operator that returns the result, *)
(* the storage as the handler left it and the messages of the Response.    *)
(*                                                                         *)
(* The handlers are those of test/lib.rs.  src/ThriveProtocolNativeReward  *)
(* has the same handlers without RewardBulk, execute_reward crediting      *)
(* inline what reward_single credits here.                                 *)
(*                                                                         *)
(* A handler that returns an error after a save leaves that save in the    *)
(* storage it was given: whether a host discards it is outside the         *)
(* contract, and the model keeps the storage as the handler left it.       *)
(***************************************************************************)
EXTENDS Integers, Sequences, FiniteSets, TLC

(* ------------------------------ bounds --------------------------------- *)
\* Largest value of a Uint128 in the model (stands for 2^128 - 1).
Uint128Max == 3
\* Longest recipients / amounts / reasons vector of a RewardBulk message.
MaxBulk == 2
\* Most coins attached to one message.
MaxFunds == 2
\* Largest total the accounts of deposits, rewards and withdrawals follow.
MaxTotal == 2

(* ------------------------------ inputs --------------------------------- *)
\* Account identifiers the host's address validation accepts.
Addrs == {"owner", "user"}
\* Strings the host's address validation rejects.
MalformedAddrs == {"BAD!"}
AddrStrings == Addrs \cup MalformedAddrs
\* Denominations a coin can carry.
CoinDenoms == {"utoken", "utest"}
\* Strings a message can carry as a denomination (String, may be empty).
DenomStrings == CoinDenoms \cup {""}
Reasons == {"Reason1"}
Uint128 == 0..Uint128Max

None == "None"

Min(S) == CHOOSE x \in S : \A y \in S : x <= y

SeqsUpTo(S, n) == UNION {[1..k -> S] : k \in 0..n}

Coins == [denom : CoinDenoms, amount : Uint128]
\* Attached funds: the host hands over at most one coin per denomination.
Funds ==
  {f \in SeqsUpTo(Coins, MaxFunds) :
     \A i, j \in 1..Len(f) : i # j => f[i].denom # f[j].denom}

(* ------------------------------ errors --------------------------------- *)
Ok == "Ok"
ErrUnauthorized == "Unauthorized: Only the owner can call this"
ErrDepositZero == "Deposit amount must be greater than zero"
ErrWithdrawZero == "Withdraw amount must be greater than zero"
ErrInsufficient == "Insufficient balance"
ErrLengths == "Array lengths mismatch"
ErrAddr == "addr_validate: invalid address"
\* Uint128 `+` aborts the call on overflow instead of returning an error.
Panic == "panic: attempt to add with overflow"

(* ------------------------------ storage -------------------------------- *)
VARIABLES state, token_denom, balances, last, totals, payouts

vars == <<state, token_denom, balances, last, totals, payouts>>

\* The three storage items as one value.
Storage == [state |-> state, token_denom |-> token_denom, balances |-> balances]

\* Nothing saved yet: no owner, no denomination, no balance entry.
EmptyStorage ==
  [state |-> [owner |-> None], token_denom |-> None, balances |-> << >>]

\* Map::may_load(..).unwrap_or(Uint128::zero())
may_load_or_zero(b, a) == IF a \in DOMAIN b THEN b[a] ELSE 0

\* Map::save
save(b, a, v) == [x \in (DOMAIN b) \cup {a} |-> IF x = a THEN v ELSE b[x]]

\* deps.api.addr_validate
addr_validate(s) == s \in Addrs

Return(res, s, msgs, data) ==
  [result |-> res, storage |-> s, messages |-> msgs, data |-> data]

(* ------------------------------ handlers ------------------------------- *)
validate_owner(s, info) ==
  IF info.sender # s.state.owner THEN ErrUnauthorized ELSE Ok

\* Mutant of instantiate: the denomination is a fixed platform denomination
\* instead of the one the message supplies.
instantiate_fixed_denom(s, info, msg) ==
  Return(Ok,
         [s EXCEPT !.state = [owner |-> info.sender], !.token_denom = "utoken"],
         << >>, None)

instantiate(s, info, msg) ==
  Return(Ok,
         [s EXCEPT !.state = [owner |-> info.sender],
                   !.token_denom = msg.token_denom],
         << >>, None)

\* Mutant of find_amount: takes the first attached coin, whatever its
\* denomination.
find_amount_any_denom(funds, denom) ==
  IF Len(funds) = 0 THEN 0 ELSE funds[1].amount

\* funds.iter().find(|coin| coin.denom == denom).map(|coin| coin.amount)
\*      .unwrap_or(Uint128::zero())
find_amount(funds, denom) ==
  LET idx == {i \in 1..Len(funds) : funds[i].denom = denom}
  IN  IF idx = {} THEN 0 ELSE funds[Min(idx)].amount

\* Mutant of execute_deposit: saves the deposited amount over the balance
\* instead of adding it.
execute_deposit_overwrite(s, info) ==
  LET amount == find_amount(info.funds, s.token_denom)
  IN  IF amount = 0 THEN Return(ErrDepositZero, s, << >>, None)
      ELSE Return(Ok,
                  [s EXCEPT !.balances = save(s.balances, info.sender, amount)],
                  << >>, None)

execute_deposit(s, info) ==
  LET denom == s.token_denom
      amount == find_amount(info.funds, denom)
      current_balance == may_load_or_zero(s.balances, info.sender)
  IN  IF amount = 0 THEN Return(ErrDepositZero, s, << >>, None)
      ELSE IF current_balance + amount > Uint128Max
        THEN Return(Panic, s, << >>, None)
      ELSE Return(Ok,
                  [s EXCEPT !.balances =
                     save(s.balances, info.sender, current_balance + amount)],
                  << >>, None)

\* Mutant of reward_single: the amount is saved over the balance instead of
\* being added to it.
reward_single_overwrite(s, recipient, amount, reason) ==
  IF ~addr_validate(recipient) THEN Return(ErrAddr, s, << >>, None)
  ELSE Return(Ok, [s EXCEPT !.balances = save(s.balances, recipient, amount)],
              << >>, None)

reward_single(s, recipient, amount, reason) ==
  IF ~addr_validate(recipient) THEN Return(ErrAddr, s, << >>, None)
  ELSE LET balance == may_load_or_zero(s.balances, recipient)
       IN  IF balance + amount > Uint128Max
             THEN Return(Panic, s, << >>, None)
           ELSE Return(Ok,
                       [s EXCEPT !.balances =
                          save(s.balances, recipient, balance + amount)],
                       << >>, None)

execute_reward(s, info, recipient, amount, reason) ==
  IF validate_owner(s, info) # Ok
    THEN Return(validate_owner(s, info), s, << >>, None)
  ELSE reward_single(s, recipient, amount, reason)

\* for ((recipient, amount), reason) in recipients.zip(amounts).zip(reasons)
\*   { reward_single(..)?; }   -- items i.. of the zip, on the storage s
RECURSIVE reward_loop(_, _, _, _, _)
reward_loop(s, recipients, amounts, reasons, i) ==
  IF i > Min({Len(recipients), Len(amounts), Len(reasons)})
    THEN Return(Ok, s, << >>, None)
  ELSE LET r == reward_single(s, recipients[i], amounts[i], reasons[i])
       IN  IF r.result # Ok THEN r
           ELSE reward_loop(r.storage, recipients, amounts, reasons, i + 1)

\* Mutant of execute_reward_bulk: the length of reasons is not compared.
execute_reward_bulk_two_lengths(s, info, recipients, amounts, reasons) ==
  IF validate_owner(s, info) # Ok
    THEN Return(validate_owner(s, info), s, << >>, None)
  ELSE IF Len(recipients) # Len(amounts)
    THEN Return(ErrLengths, s, << >>, None)
  ELSE reward_loop(s, recipients, amounts, reasons, 1)

\* Mutant of execute_reward_bulk: every item is credited onto the balance
\* read before the loop, so of a repeated recipient only the last item counts.
execute_reward_bulk_snapshot(s, info, recipients, amounts, reasons) ==
  IF validate_owner(s, info) # Ok
    THEN Return(validate_owner(s, info), s, << >>, None)
  ELSE IF Len(recipients) # Len(amounts) \/ Len(recipients) # Len(reasons)
    THEN Return(ErrLengths, s, << >>, None)
  ELSE LET r == reward_loop(s, recipients, amounts, reasons, 1)
           at(a) == {i \in 1..Len(recipients) : recipients[i] = a}
           lastOf(a) == CHOOSE i \in at(a) : \A j \in at(a) : j <= i
       IN  IF r.result # Ok THEN r
           ELSE Return(Ok,
                  [s EXCEPT !.balances =
                     [a \in DOMAIN r.storage.balances |->
                        IF at(a) = {} THEN s.balances[a]
                        ELSE may_load_or_zero(s.balances, a)
                               + amounts[lastOf(a)]]],
                  << >>, None)

\* Mutant of execute_reward_bulk: the lengths are compared before the owner
\* is checked.
execute_reward_bulk_lengths_first(s, info, recipients, amounts, reasons) ==
  IF Len(recipients) # Len(amounts) \/ Len(recipients) # Len(reasons)
    THEN Return(ErrLengths, s, << >>, None)
  ELSE IF validate_owner(s, info) # Ok
    THEN Return(validate_owner(s, info), s, << >>, None)
  ELSE reward_loop(s, recipients, amounts, reasons, 1)

execute_reward_bulk(s, info, recipients, amounts, reasons) ==
  IF validate_owner(s, info) # Ok
    THEN Return(validate_owner(s, info), s, << >>, None)
  ELSE IF Len(recipients) # Len(amounts) \/ Len(recipients) # Len(reasons)
    THEN Return(ErrLengths, s, << >>, None)
  ELSE reward_loop(s, recipients, amounts, reasons, 1)

\* CosmosMsg::Bank(BankMsg::Send { to_address, amount: vec![Coin { denom, amount }] })
BankSend(to, denom, amount) ==
  [type |-> "BankMsg::Send", to_address |-> to,
   amount |-> <<[denom |-> denom, amount |-> amount]>>]

\* Mutant of execute_withdraw: the balance is not saved after the debit.
execute_withdraw_no_debit(s, info, amount) ==
  IF amount = 0 THEN Return(ErrWithdrawZero, s, << >>, None)
  ELSE IF amount > may_load_or_zero(s.balances, info.sender)
    THEN Return(ErrInsufficient, s, << >>, None)
  ELSE Return(Ok, s, <<BankSend(info.sender, s.token_denom, amount)>>, None)

\* Mutant of execute_withdraw: the insufficient-balance check is missing.
execute_withdraw_no_balance_check(s, info, amount) ==
  IF amount = 0 THEN Return(ErrWithdrawZero, s, << >>, None)
  ELSE Return(Ok,
              [s EXCEPT !.balances =
                 save(s.balances, info.sender,
                      may_load_or_zero(s.balances, info.sender) - amount)],
              <<BankSend(info.sender, s.token_denom, amount)>>, None)

\* Mutant of execute_withdraw: the zero-amount check is missing.
execute_withdraw_no_zero_check(s, info, amount) ==
  IF amount > may_load_or_zero(s.balances, info.sender)
    THEN Return(ErrInsufficient, s, << >>, None)
  ELSE Return(Ok,
              [s EXCEPT !.balances =
                 save(s.balances, info.sender,
                      may_load_or_zero(s.balances, info.sender) - amount)],
              <<BankSend(info.sender, s.token_denom, amount)>>, None)

\* Mutant of execute_withdraw: the settlement names the denomination the
\* tests instantiate with instead of the stored one.
execute_withdraw_fixed_denom(s, info, amount) ==
  IF amount = 0 THEN Return(ErrWithdrawZero, s, << >>, None)
  ELSE IF amount > may_load_or_zero(s.balances, info.sender)
    THEN Return(ErrInsufficient, s, << >>, None)
  ELSE Return(Ok,
              [s EXCEPT !.balances =
                 save(s.balances, info.sender,
                      may_load_or_zero(s.balances, info.sender) - amount)],
              <<BankSend(info.sender, "utoken", amount)>>, None)

execute_withdraw(s, info, amount) ==
  IF amount = 0 THEN Return(ErrWithdrawZero, s, << >>, None)
  ELSE LET denom == s.token_denom
           current_balance == may_load_or_zero(s.balances, info.sender)
       IN  IF amount > current_balance
             THEN Return(ErrInsufficient, s, << >>, None)
           ELSE Return(Ok,
                       [s EXCEPT !.balances =
                          save(s.balances, info.sender, current_balance - amount)],
                       <<BankSend(info.sender, denom, amount)>>, None)

\* Mutant of update_ownership: the new owner is validated but not saved.
update_ownership_not_saved(s, info, new_owner) ==
  IF validate_owner(s, info) # Ok
    THEN Return(validate_owner(s, info), s, << >>, None)
  ELSE IF ~addr_validate(new_owner) THEN Return(ErrAddr, s, << >>, None)
  ELSE Return(Ok, s, << >>, None)

\* Mutant of update_ownership: the owner check is missing.
update_ownership_unchecked(s, info, new_owner) ==
  IF ~addr_validate(new_owner) THEN Return(ErrAddr, s, << >>, None)
  ELSE Return(Ok, [s EXCEPT !.state = [owner |-> new_owner]], << >>, None)

\* Mutant of update_ownership: the new owner is saved before it is validated.
update_ownership_save_first(s, info, new_owner) ==
  IF validate_owner(s, info) # Ok
    THEN Return(validate_owner(s, info), s, << >>, None)
  ELSE Return(IF addr_validate(new_owner) THEN Ok ELSE ErrAddr,
              [s EXCEPT !.state = [owner |-> new_owner]], << >>, None)

update_ownership(s, info, new_owner) ==
  IF validate_owner(s, info) # Ok
    THEN Return(validate_owner(s, info), s, << >>, None)
  ELSE IF ~addr_validate(new_owner) THEN Return(ErrAddr, s, << >>, None)
  ELSE Return(Ok, [s EXCEPT !.state = [owner |-> new_owner]], << >>, None)

\* Mutant of set_token_denom: the owner check is missing.
set_token_denom_unchecked(s, info, denom) ==
  Return(Ok, [s EXCEPT !.token_denom = denom], << >>, None)

set_token_denom(s, info, denom) ==
  IF validate_owner(s, info) # Ok
    THEN Return(validate_owner(s, info), s, << >>, None)
  ELSE Return(Ok, [s EXCEPT !.token_denom = denom], << >>, None)

\* Mutant of query_balance: load instead of may_load, an account without an
\* entry is an error.
query_balance_load(s, address) ==
  IF ~addr_validate(address) THEN Return(ErrAddr, s, << >>, None)
  ELSE IF address \notin DOMAIN s.balances
    THEN Return("balances: not found", s, << >>, None)
  ELSE Return(Ok, s, << >>, s.balances[address])

query_balance(s, address) ==
  IF ~addr_validate(address) THEN Return(ErrAddr, s, << >>, None)
  ELSE Return(Ok, s, << >>, may_load_or_zero(s.balances, address))

query_token_denom(s) == Return(Ok, s, << >>, s.token_denom)

execute(s, info, msg) ==
  CASE msg.type = "Deposit" -> execute_deposit(s, info)
    [] msg.type = "Reward" ->
         execute_reward(s, info, msg.recipient, msg.amount, msg.reason)
    [] msg.type = "RewardBulk" ->
         execute_reward_bulk(s, info, msg.recipients, msg.amounts, msg.reasons)
    [] msg.type = "Withdraw" -> execute_withdraw(s, info, msg.amount)
    [] msg.type = "UpdateOwnership" -> update_ownership(s, info, msg.new_owner)
    [] msg.type = "SetTokenDenom" -> set_token_denom(s, info, msg.denom)

query(s, msg) ==
  CASE msg.type = "GetBalance" -> query_balance(s, msg.address)
    [] msg.type = "GetTokenDenom" -> query_token_denom(s)

(* ------------------------------ messages ------------------------------- *)
MessageInfo(sender, funds) == [sender |-> sender, funds |-> funds]

RewardMsgs ==
  {[type |-> "Reward", recipient |-> r, amount |-> a, reason |-> re] :
     r \in AddrStrings, a \in Uint128, re \in Reasons}

WithdrawMsgs == {[type |-> "Withdraw", amount |-> a] : a \in Uint128}

UpdateOwnershipMsgs ==
  {[type |-> "UpdateOwnership", new_owner |-> n] : n \in AddrStrings}

SetTokenDenomMsgs ==
  {[type |-> "SetTokenDenom", denom |-> d] : d \in DenomStrings}

\* Amounts of the items of a RewardBulk message.
BulkAmounts == 0..2

\* RewardBulk messages: every triple of vectors of equal length, and for
\* every recipients vector the triples of unequal lengths (whose amounts
\* and reasons are never read) with amounts 1.
RewardBulkMsgs ==
  {[type |-> "RewardBulk", recipients |-> rs, amounts |-> as, reasons |-> re] :
     rs \in SeqsUpTo(AddrStrings, MaxBulk),
     as \in SeqsUpTo(BulkAmounts, MaxBulk),
     re \in SeqsUpTo(Reasons, MaxBulk)}

BulkInputs ==
  {m \in RewardBulkMsgs :
     \/ Len(m.recipients) = Len(m.amounts) /\ Len(m.recipients) = Len(m.reasons)
     \/ \A i \in 1..Len(m.amounts) : m.amounts[i] = 1}

(* ------------------------------ behaviour ------------------------------ *)
\* The record of a call: who called with what, the storage before the
\* call, and the outcome (result, Response messages, query data).
CallRecord(sender, funds, msg, pre, r) ==
  [sender |-> sender, funds |-> funds, msg |-> msg, pre |-> pre,
   result |-> r.result, messages |-> r.messages, data |-> r.data]

\* No call is being answered.
NoCall ==
  CallRecord(None, << >>, [type |-> "None"], EmptyStorage,
             Return(None, EmptyStorage, << >>, None))

\* The amounts of the items of a RewardBulk that reward_single credited
\* before the loop ended: items i.. on the storage s.
RECURSIVE applied_amounts(_, _, _, _, _)
applied_amounts(s, recipients, amounts, reasons, i) ==
  IF i > Min({Len(recipients), Len(amounts), Len(reasons)}) THEN 0
  ELSE LET r == reward_single(s, recipients[i], amounts[i], reasons[i])
       IN  IF r.result # Ok THEN 0
           ELSE amounts[i]
                  + applied_amounts(r.storage, recipients, amounts, reasons,
                                    i + 1)

\* The accounts of the ledger's history, kept beside the contract: the
\* amounts deposited (the amount of a successful Deposit), rewarded (the
\* amount of a successful Reward, the amounts of the items a RewardBulk
\* credited) and withdrawn (the amounts of the settlement instructions).
\* `on` tells whether the accounts are kept in this behaviour.
NoTotals == [on |-> FALSE, deposited |-> 0, rewarded |-> 0, withdrawn |-> 0]

ZeroTotals == [on |-> TRUE, deposited |-> 0, rewarded |-> 0, withdrawn |-> 0]

\* The accounts t after the call c.
account(t, c) ==
  IF ~t.on THEN t
  ELSE IF c.msg.type = "Deposit" /\ c.result = Ok
    THEN [t EXCEPT !.deposited = @ + find_amount(c.funds, c.pre.token_denom)]
  ELSE IF c.msg.type = "Reward" /\ c.result = Ok
    THEN [t EXCEPT !.rewarded = @ + c.msg.amount]
  ELSE IF c.msg.type = "RewardBulk"
          /\ c.result \notin {ErrUnauthorized, ErrLengths}
    THEN [t EXCEPT !.rewarded =
            @ + applied_amounts(c.pre, c.msg.recipients, c.msg.amounts,
                                c.msg.reasons, 1)]
  ELSE IF c.msg.type = "Withdraw" /\ c.result = Ok
    THEN [t EXCEPT !.withdrawn = @ + c.messages[1].amount[1].amount]
  ELSE t

\* The amounts of the items of a RewardBulk naming the account x that
\* reward_single credited before the loop ended: items i.. on the storage s.
RECURSIVE applied_to(_, _, _, _, _, _)
applied_to(s, recipients, amounts, reasons, i, x) ==
  IF i > Min({Len(recipients), Len(amounts), Len(reasons)}) THEN 0
  ELSE LET r == reward_single(s, recipients[i], amounts[i], reasons[i])
       IN  IF r.result # Ok THEN 0
           ELSE (IF recipients[i] = x THEN amounts[i] ELSE 0)
                  + applied_to(r.storage, recipients, amounts, reasons,
                               i + 1, x)

\* The accounts of each address, kept beside the contract: the amounts
\* credited to it (its successful Deposits, the successful Rewards and the
\* credited RewardBulk items naming it) and the amounts of the settlement
\* instructions emitted to it.  `on` tells whether they are kept in this
\* behaviour.
NoPayouts ==
  [on |-> FALSE, credited |-> [x \in Addrs |-> 0], paid |-> [x \in Addrs |-> 0]]

ZeroPayouts ==
  [on |-> TRUE, credited |-> [x \in Addrs |-> 0], paid |-> [x \in Addrs |-> 0]]

\* The amount the settlement instructions msgs send to the account x.
RECURSIVE sent_to(_, _)
sent_to(msgs, x) ==
  IF msgs = << >> THEN 0
  ELSE (IF Head(msgs).to_address = x THEN Head(msgs).amount[1].amount ELSE 0)
         + sent_to(Tail(msgs), x)

\* The amount the call c credited to the account x.
credited_to(c, x) ==
  IF c.msg.type = "Deposit" /\ c.result = Ok
    THEN (IF c.sender = x THEN find_amount(c.funds, c.pre.token_denom) ELSE 0)
  ELSE IF c.msg.type = "Reward" /\ c.result = Ok
    THEN (IF c.msg.recipient = x THEN c.msg.amount ELSE 0)
  ELSE IF c.msg.type = "RewardBulk"
          /\ c.result \notin {ErrUnauthorized, ErrLengths}
    THEN applied_to(c.pre, c.msg.recipients, c.msg.amounts, c.msg.reasons,
                    1, x)
  ELSE 0

\* The accounts p after the call c.
payout(p, c) ==
  IF ~p.on THEN p
  ELSE [p EXCEPT
          !.credited = [x \in Addrs |-> @[x] + credited_to(c, x)],
          !.paid = [x \in Addrs |-> @[x] + sent_to(c.messages, x)]]

\* One call of an entry point: the storage becomes what the handler left,
\* and `last` holds the call and its outcome until the caller has taken it.
\* The accounts follow the call, up to MaxTotal.
Call(sender, funds, msg, r) ==
  /\ state' = r.storage.state
  /\ token_denom' = r.storage.token_denom
  /\ balances' = r.storage.balances
  /\ last' = CallRecord(sender, funds, msg, Storage, r)
  /\ totals' = account(totals, last')
  /\ totals'.deposited <= MaxTotal
  /\ totals'.rewarded <= MaxTotal
  /\ totals'.withdrawn <= MaxTotal
  /\ payouts' = payout(payouts, last')
  /\ \A x \in Addrs : /\ payouts'.credited[x] <= MaxTotal
                      /\ payouts'.paid[x] <= MaxTotal

\* The storage and the call record after instantiate.
Instantiated ==
  \E sender \in Addrs, d \in DenomStrings :
    LET info == MessageInfo(sender, << >>)
        msg == [type |-> "Instantiate", token_denom |-> d]
        r == instantiate(EmptyStorage, info, msg)
    IN  /\ state = r.storage.state
        /\ token_denom = r.storage.token_denom
        /\ balances = r.storage.balances
        /\ last = CallRecord(sender, << >>, msg, EmptyStorage, r)

Init == Instantiated /\ totals = NoTotals /\ payouts = NoPayouts

\* Calls are serialized: none starts while one is being answered.
Idle == last.msg.type = NoCall.msg.type

Exec(info, msg) ==
  Call(info.sender, info.funds, msg, execute(Storage, info, msg))

Deposit ==
  /\ Idle
  /\ \E sender \in Addrs, funds \in Funds :
       Exec(MessageInfo(sender, funds), [type |-> "Deposit"])

Reward ==
  /\ Idle
  /\ \E sender \in Addrs, m \in RewardMsgs : Exec(MessageInfo(sender, << >>), m)

RewardBulk ==
  /\ Idle
  /\ \E sender \in Addrs, m \in BulkInputs : Exec(MessageInfo(sender, << >>), m)

Withdraw ==
  /\ Idle
  /\ \E sender \in Addrs, m \in WithdrawMsgs :
       Exec(MessageInfo(sender, << >>), m)

UpdateOwnership ==
  /\ Idle
  /\ \E sender \in Addrs, m \in UpdateOwnershipMsgs :
       Exec(MessageInfo(sender, << >>), m)

SetTokenDenom ==
  /\ Idle
  /\ \E sender \in Addrs, m \in SetTokenDenomMsgs :
       Exec(MessageInfo(sender, << >>), m)

GetBalance ==
  /\ Idle
  /\ \E address \in AddrStrings :
       LET msg == [type |-> "GetBalance", address |-> address]
       IN  Call(None, << >>, msg, query(Storage, msg))

GetTokenDenom ==
  /\ Idle
  /\ LET msg == [type |-> "GetTokenDenom"]
     IN  Call(None, << >>, msg, query(Storage, msg))

\* The caller takes the result; the storage stays as the handler left it
\* (the storage handle outlives the call, whatever the result).
TakeResult ==
  /\ ~Idle
  /\ last' = NoCall
  /\ UNCHANGED <<state, token_denom, balances, totals, payouts>>

Next ==
  \/ Deposit
  \/ Reward
  \/ RewardBulk
  \/ Withdraw
  \/ UpdateOwnership
  \/ SetTokenDenom
  \/ GetBalance
  \/ GetTokenDenom
  \/ TakeResult

Spec == Init /\ [][Next]_vars

\* The same behaviours with the accounts of the ledger's history kept.
LedgerInit == Instantiated /\ totals = ZeroTotals /\ payouts = NoPayouts

LedgerSpec == LedgerInit /\ [][Next]_vars

\* The same behaviours with the accounts of each address kept.
PayoutInit == Instantiated /\ totals = NoTotals /\ payouts = ZeroPayouts

PayoutSpec == PayoutInit /\ [][Next]_vars

(* ============================== properties ============================= *)
\* Balance of an account: an absent entry counts as zero.
BalanceOf(b, a) == IF a \in DOMAIN b THEN b[a] ELSE 0

\* The entry of account a is the same in b and c: absent in both, or
\* present in both with the same amount.
SameEntry(b, c, a) ==
  /\ (a \in DOMAIN b) = (a \in DOMAIN c)
  /\ a \in DOMAIN b => b[a] = c[a]

\* Owner, denomination and every balance entry are as before the call.
StorageUnchanged ==
  /\ state.owner = last.pre.state.owner
  /\ token_denom = last.pre.token_denom
  /\ DOMAIN balances = DOMAIN last.pre.balances
  /\ \A a \in DOMAIN balances : balances[a] = last.pre.balances[a]

\* Amount of denomination d among the attached coins (zero if none).
AttachedAmount(funds, d) ==
  IF \E i \in 1..Len(funds) : funds[i].denom = d
    THEN funds[CHOOSE i \in 1..Len(funds) : funds[i].denom = d].amount
  ELSE 0

OwnerGated == {"Reward", "RewardBulk", "UpdateOwnership", "SetTokenDenom"}

(* C1: For each of Reward, RewardBulk, UpdateOwnership and SetTokenDenom: *)
(* if the caller is not the current owner the command fails with          *)
(* Unauthorized and the owner, the denomination and every balance are     *)
(* exactly as before the command.                                         *)
C1_NonOwnerUnauthorized ==
  (last.msg.type \in OwnerGated /\ last.sender # last.pre.state.owner)
    => (last.result = ErrUnauthorized /\ StorageUnchanged)

\* A non-owner's SetTokenDenom naming another denomination was answered.
C1_Witness ==
  /\ last.msg.type = "SetTokenDenom"
  /\ last.sender # last.pre.state.owner
  /\ last.msg.denom # last.pre.token_denom
  /\ last.msg.denom # ""

(* C2: Withdraw(caller, a) with 0 < a <= balance(caller) succeeds, sets   *)
(* balance(caller) to its previous value minus a, leaves every other      *)
(* balance, the owner and the denomination unchanged, and emits exactly   *)
(* one settlement instruction transferring amount a of the denomination   *)
(* current at the time of the call to caller.                             *)
C2_WithdrawDebitsAndSettles ==
  ( /\ last.msg.type = "Withdraw"
    /\ 0 < last.msg.amount
    /\ last.msg.amount <= BalanceOf(last.pre.balances, last.sender) )
    => /\ last.result = Ok
       /\ last.sender \in DOMAIN balances
       /\ balances[last.sender] =
            BalanceOf(last.pre.balances, last.sender) - last.msg.amount
       /\ \A a \in Addrs \ {last.sender} :
            SameEntry(balances, last.pre.balances, a)
       /\ DOMAIN balances \subseteq Addrs
       /\ state.owner = last.pre.state.owner
       /\ token_denom = last.pre.token_denom
       /\ Len(last.messages) = 1
       /\ last.messages[1].type = "BankMsg::Send"
       /\ last.messages[1].to_address = last.sender
       /\ last.messages[1].amount =
            <<[denom |-> last.pre.token_denom, amount |-> last.msg.amount]>>

\* A partial withdrawal by an account while another account holds a balance.
C2_Witness ==
  /\ last.msg.type = "Withdraw"
  /\ 0 < last.msg.amount
  /\ last.msg.amount < BalanceOf(last.pre.balances, last.sender)
  /\ \E a \in Addrs \ {last.sender} : BalanceOf(last.pre.balances, a) > 0
  /\ last.result = Ok

(* C3: Withdraw(caller, a) with a > balance(caller) (an absent entry      *)
(* counting as 0) fails with InsufficientBalance, emits no settlement     *)
(* instruction and leaves every balance unchanged; consequently no        *)
(* balance entry is ever negative in any reachable state.                 *)
C3_InsufficientBalanceRejected ==
  /\ ( /\ last.msg.type = "Withdraw"
       /\ last.msg.amount > BalanceOf(last.pre.balances, last.sender) )
       => /\ last.result = ErrInsufficient
          /\ last.messages = << >>
          /\ \A a \in Addrs : SameEntry(balances, last.pre.balances, a)
  /\ \A a \in DOMAIN balances : balances[a] >= 0

\* A withdrawal of more than a positive balance was answered.
C3_Witness ==
  /\ last.msg.type = "Withdraw"
  /\ last.msg.amount > BalanceOf(last.pre.balances, last.sender)
  /\ BalanceOf(last.pre.balances, last.sender) > 0
  /\ last.result = ErrInsufficient

(* C4 (as stated): Deposit(caller, attachedFunds) in which the attached   *)
(* amount of the current denomination is a > 0 succeeds, increases        *)
(* balance(caller) by exactly a (creating the entry if absent), ignores   *)
(* attached coins of any other denomination, changes no other balance,    *)
(* and emits no settlement instruction.                                   *)
C4_DepositAlwaysCredits ==
  ( /\ last.msg.type = "Deposit"
    /\ AttachedAmount(last.funds, last.pre.token_denom) > 0 )
    => /\ last.result = Ok
       /\ last.sender \in DOMAIN balances
       /\ balances[last.sender] =
            BalanceOf(last.pre.balances, last.sender)
              + AttachedAmount(last.funds, last.pre.token_denom)
       /\ \A a \in Addrs \ {last.sender} :
            SameEntry(balances, last.pre.balances, a)
       /\ last.messages = << >>

(* C4 (amended): Deposit(caller, attachedFunds) in which the attached     *)
(* amount of the current denomination is a > 0 and balance(caller) + a    *)
(* does not exceed the largest Uint128 succeeds, increases                *)
(* balance(caller) by exactly a (creating the entry if absent), ignores   *)
(* attached coins of any other denomination, changes no other balance,    *)
(* and emits no settlement instruction.                                   *)
C4_DepositCredits ==
  ( /\ last.msg.type = "Deposit"
    /\ AttachedAmount(last.funds, last.pre.token_denom) > 0
    /\ BalanceOf(last.pre.balances, last.sender)
         + AttachedAmount(last.funds, last.pre.token_denom) <= Uint128Max )
    => /\ last.result = Ok
       /\ last.sender \in DOMAIN balances
       /\ balances[last.sender] =
            BalanceOf(last.pre.balances, last.sender)
              + AttachedAmount(last.funds, last.pre.token_denom)
       /\ \A a \in Addrs \ {last.sender} :
            SameEntry(balances, last.pre.balances, a)
       /\ DOMAIN balances \subseteq Addrs
       /\ state.owner = last.pre.state.owner
       /\ token_denom = last.pre.token_denom
       /\ last.messages = << >>

\* A deposit onto a positive balance that attached a coin of the current
\* denomination after a positive coin of another denomination.
C4_Witness ==
  /\ last.msg.type = "Deposit"
  /\ last.result = Ok
  /\ BalanceOf(last.pre.balances, last.sender) > 0
  /\ Len(last.funds) = 2
  /\ last.funds[1].denom # last.pre.token_denom
  /\ last.funds[1].amount > 0
  /\ last.funds[2].denom = last.pre.token_denom
  /\ last.funds[2].amount # last.funds[1].amount

(* C5: Deposit fails with InvalidAmount and leaves all state unchanged    *)
(* whenever the attached funds contain no coin of the current             *)
(* denomination or the coin of the current denomination has amount zero,  *)
(* including when coins of other denominations with positive amounts are  *)
(* attached.                                                              *)
C5_DepositWithoutAmountRejected ==
  ( /\ last.msg.type = "Deposit"
    /\ \A i \in 1..Len(last.funds) :
         last.funds[i].denom = last.pre.token_denom
           => last.funds[i].amount = 0 )
    => /\ last.result = ErrDepositZero
       /\ StorageUnchanged
       /\ last.messages = << >>

\* A deposit that attached only a positive coin of another denomination
\* was answered.
C5_Witness ==
  /\ last.msg.type = "Deposit"
  /\ Len(last.funds) = 1
  /\ last.funds[1].denom # last.pre.token_denom
  /\ last.funds[1].amount > 0
  /\ last.result = ErrDepositZero

(* C6: Withdraw(caller, 0) fails with InvalidAmount for every caller and  *)
(* every balance (including a zero or absent balance, where the           *)
(* zero-amount check takes precedence over the insufficient-balance       *)
(* check), emits no settlement instruction and changes no state.          *)
C6_WithdrawZeroRejected ==
  (last.msg.type = "Withdraw" /\ last.msg.amount = 0)
    => /\ last.result = ErrWithdrawZero
       /\ last.messages = << >>
       /\ StorageUnchanged

\* Withdraw(0) by an account without a balance entry was answered.
C6_Witness ==
  /\ last.msg.type = "Withdraw"
  /\ last.msg.amount = 0
  /\ last.sender \notin DOMAIN last.pre.balances
  /\ last.result = ErrWithdrawZero

\* The three vectors of the RewardBulk message in `last` have one length.
BulkLengthsEqual ==
  /\ Len(last.msg.recipients) = Len(last.msg.amounts)
  /\ Len(last.msg.recipients) = Len(last.msg.reasons)

(* C7: RewardBulk is all-or-nothing: when the owner submits equal-length  *)
(* sequences in which any recipient is malformed, the command fails and   *)
(* no recipient's balance is modified, including recipients that precede  *)
(* the malformed one in input order.                                      *)
C7_BulkAllOrNothing ==
  ( /\ last.msg.type = "RewardBulk"
    /\ last.sender = last.pre.state.owner
    /\ BulkLengthsEqual
    /\ \E i \in 1..Len(last.msg.recipients) :
         last.msg.recipients[i] \in MalformedAddrs )
    => /\ last.result # Ok
       /\ \A a \in Addrs :
            BalanceOf(balances, a) = BalanceOf(last.pre.balances, a)

(* C8: RewardBulk called by the owner with recipients, amounts and        *)
(* reasons that are not all of equal length fails with LengthMismatch     *)
(* before any balance is written: every balance, the owner and the        *)
(* denomination are unchanged.                                            *)
C8_LengthMismatchRejected ==
  ( /\ last.msg.type = "RewardBulk"
    /\ last.sender = last.pre.state.owner
    /\ ~BulkLengthsEqual )
    => (last.result = ErrLengths /\ StorageUnchanged)

\* The owner's RewardBulk with two well-formed recipients, two amounts and
\* one reason was answered.
C8_Witness ==
  /\ last.msg.type = "RewardBulk"
  /\ last.sender = last.pre.state.owner
  /\ Len(last.msg.recipients) = 2
  /\ Len(last.msg.amounts) = 2
  /\ Len(last.msg.reasons) = 1
  /\ \A i \in 1..2 : last.msg.recipients[i] \in Addrs
  /\ last.result = ErrLengths

\* The storage after Reward(recipients[i], amounts[i], reasons[i]) was
\* executed for i, i+1, .. in input order, starting from storage s.
RECURSIVE RewardsInOrder(_, _, _, _, _, _)
RewardsInOrder(s, info, recipients, amounts, reasons, i) ==
  IF i > Len(recipients) THEN s
  ELSE RewardsInOrder(
         execute_reward(s, info, recipients[i], amounts[i], reasons[i]).storage,
         info, recipients, amounts, reasons, i + 1)

\* Sum of the amounts of the items naming recipient a.
RECURSIVE AmountsFor(_, _, _, _)
AmountsFor(a, recipients, amounts, i) ==
  IF i > Len(recipients) THEN 0
  ELSE (IF recipients[i] = a THEN amounts[i] ELSE 0)
         + AmountsFor(a, recipients, amounts, i + 1)

(* C9: A successful RewardBulk(recipients, amounts, reasons) by the owner *)
(* leaves the ledger in exactly the state reached by executing            *)
(* Reward(recipients[i], amounts[i], reasons[i]) for i in input order     *)
(* from the same start state; in particular a recipient that appears      *)
(* several times is credited the sum of its amounts.                      *)
C9_BulkEqualsRewardsInOrder ==
  (last.msg.type = "RewardBulk" /\ last.result = Ok)
    => /\ Storage =
            RewardsInOrder(last.pre, MessageInfo(last.sender, last.funds),
                           last.msg.recipients, last.msg.amounts,
                           last.msg.reasons, 1)
       /\ \A a \in Addrs :
            BalanceOf(balances, a) =
              BalanceOf(last.pre.balances, a)
                + AmountsFor(a, last.msg.recipients, last.msg.amounts, 1)

\* A successful RewardBulk that names one recipient twice with positive
\* amounts, onto a positive balance.
C9_Witness ==
  /\ last.msg.type = "RewardBulk"
  /\ last.result = Ok
  /\ Len(last.msg.recipients) = 2
  /\ last.msg.recipients[1] = last.msg.recipients[2]
  /\ last.msg.amounts[1] > 0
  /\ last.msg.amounts[2] > 0
  /\ BalanceOf(last.pre.balances, last.msg.recipients[1]) > 0

\* Every owner-gated message.
OwnerGatedMsgs ==
  RewardMsgs \cup BulkInputs \cup UpdateOwnershipMsgs \cup SetTokenDenomMsgs

\* `last` is a successful UpdateOwnership to an account other than the caller.
OwnershipTransferred ==
  /\ last.msg.type = "UpdateOwnership"
  /\ last.result = Ok
  /\ last.msg.new_owner # last.sender

(* C10: After a successful UpdateOwnership(newOwner) by the current owner *)
(* with newOwner different from the caller, the very next owner-gated     *)
(* command (Reward, RewardBulk, UpdateOwnership, SetTokenDenom) from the  *)
(* old owner fails with Unauthorized and the same command from newOwner   *)
(* passes the owner check; balances and denomination are unchanged by the *)
(* transfer.                                                              *)
C10_OwnershipHandover ==
  OwnershipTransferred
    => /\ \A m \in OwnerGatedMsgs :
            /\ execute(Storage, MessageInfo(last.sender, << >>), m).result
                 = ErrUnauthorized
            /\ execute(Storage, MessageInfo(last.msg.new_owner, << >>), m).result
                 # ErrUnauthorized
       /\ validate_owner(Storage, MessageInfo(last.msg.new_owner, << >>)) = Ok
       /\ \A a \in Addrs : SameEntry(balances, last.pre.balances, a)
       /\ DOMAIN balances = DOMAIN last.pre.balances
       /\ token_denom = last.pre.token_denom

\* The owner handed the ledger over to another account while balances
\* were held.
C10_Witness ==
  /\ OwnershipTransferred
  /\ last.sender = last.pre.state.owner
  /\ \E a \in Addrs : BalanceOf(balances, a) > 0

(* C12: SetDenom(caller, newDenom) by the owner with an empty newDenom    *)
(* fails with InvalidDenom and leaves the stored denomination unchanged,  *)
(* so the stored denomination is non-empty in every reachable state; with *)
(* a non-empty newDenom it replaces the stored denomination and changes   *)
(* nothing else.                                                          *)
C12_EmptyDenomRejected ==
  (last.msg.type = "SetTokenDenom" /\ last.sender = last.pre.state.owner)
    => /\ last.msg.denom = ""
            => (last.result # Ok /\ token_denom = last.pre.token_denom)
       /\ last.pre.token_denom # "" => token_denom # ""
       /\ last.msg.denom # ""
            => /\ last.result = Ok
               /\ token_denom = last.msg.denom
               /\ state.owner = last.pre.state.owner
               /\ DOMAIN balances = DOMAIN last.pre.balances
               /\ \A a \in Addrs : SameEntry(balances, last.pre.balances, a)

\* The error a checked Uint128 addition returns (StdError::Overflow); no
\* handler of the contract produces it.
ErrOverflow == "StdError::Overflow"

\* The call in `last` is a credit whose sum exceeds the largest Uint128.
CreditOverflows ==
  \/ /\ last.msg.type = "Deposit"
     /\ AttachedAmount(last.funds, last.pre.token_denom) > 0
     /\ BalanceOf(last.pre.balances, last.sender)
          + AttachedAmount(last.funds, last.pre.token_denom) > Uint128Max
  \/ /\ last.msg.type = "Reward"
     /\ last.sender = last.pre.state.owner
     /\ last.msg.recipient \in Addrs
     /\ BalanceOf(last.pre.balances, last.msg.recipient) + last.msg.amount
          > Uint128Max
  \/ /\ last.msg.type = "RewardBulk"
     /\ last.sender = last.pre.state.owner
     /\ BulkLengthsEqual
     /\ \A i \in 1..Len(last.msg.recipients) : last.msg.recipients[i] \in Addrs
     /\ \E a \in Addrs :
          BalanceOf(last.pre.balances, a)
            + AmountsFor(a, last.msg.recipients, last.msg.amounts, 1)
              > Uint128Max

\* The account a credit of the call in `last` would take over the range.
OverflowingAccounts ==
  IF last.msg.type = "Deposit" THEN {last.sender}
  ELSE IF last.msg.type = "Reward" THEN {last.msg.recipient}
  ELSE {a \in Addrs :
          BalanceOf(last.pre.balances, a)
            + AmountsFor(a, last.msg.recipients, last.msg.amounts, 1)
              > Uint128Max}

(* C13: Every credit (Deposit, Reward, each item of RewardBulk) whose     *)
(* result would exceed the maximum 128-bit unsigned value fails with an   *)
(* Overflow error returned as the command's outcome and leaves the        *)
(* credited balance unchanged; no balance ever wraps around modulo 2^128. *)
C13_OverflowReturnsError ==
  /\ CreditOverflows
       => /\ last.result = ErrOverflow
          /\ last.msg.type # "RewardBulk"
               => \A a \in OverflowingAccounts :
                    SameEntry(balances, last.pre.balances, a)
  /\ \A a \in DOMAIN balances : balances[a] \in Uint128

\* What C14 says of the call in `last`, a Reward by the owner.
RewardAsClaimed ==
  /\ last.msg.recipient \in Addrs
       => /\ last.result = Ok
          /\ last.msg.recipient \in DOMAIN balances
          /\ balances[last.msg.recipient] =
               BalanceOf(last.pre.balances, last.msg.recipient)
                 + last.msg.amount
          /\ \A a \in Addrs \ {last.msg.recipient} :
               SameEntry(balances, last.pre.balances, a)
          /\ DOMAIN balances \subseteq Addrs
          /\ state.owner = last.pre.state.owner
          /\ token_denom = last.pre.token_denom
          /\ last.msg.amount = 0
               => \A a \in Addrs :
                    BalanceOf(balances, a) = BalanceOf(last.pre.balances, a)
  /\ last.msg.recipient \notin Addrs
       => (last.result # Ok /\ StorageUnchanged)

(* C14 (as stated): Reward(caller, recipient, amount, reason) by the      *)
(* owner with a well-formed recipient increases balance(recipient) by     *)
(* exactly amount (creating the entry if absent) and changes no other     *)
(* balance, the owner or the denomination; amount = 0 is accepted and     *)
(* leaves every balance semantically unchanged; a malformed recipient     *)
(* makes the command fail with no state change.                           *)
C14_RewardAlwaysCredits ==
  (last.msg.type = "Reward" /\ last.sender = last.pre.state.owner)
    => RewardAsClaimed

(* C14 (amended): the same, for a well-formed recipient provided          *)
(* balance(recipient) + amount does not exceed the largest Uint128.       *)
C14_RewardCredits ==
  ( /\ last.msg.type = "Reward"
    /\ last.sender = last.pre.state.owner
    /\ last.msg.recipient \in Addrs
         => BalanceOf(last.pre.balances, last.msg.recipient)
              + last.msg.amount <= Uint128Max )
    => RewardAsClaimed

\* The owner rewarded a positive amount onto another account's positive
\* balance.
C14_Witness ==
  /\ last.msg.type = "Reward"
  /\ last.result = Ok
  /\ last.msg.recipient # last.sender
  /\ last.msg.amount > 0
  /\ BalanceOf(last.pre.balances, last.msg.recipient) > 0
  /\ BalanceOf(last.pre.balances, last.sender) > 0

(* C15: GetBalance and GetTokenDenom never change the owner, the          *)
(* denomination or any balance, however often they are called;            *)
(* GetBalance(address) returns 0 for an account that was never credited   *)
(* and otherwise the stored balance, and fails with InvalidAddress only   *)
(* for a malformed address.                                               *)
C15_QueriesReadOnly ==
  /\ last.msg.type \in {"GetBalance", "GetTokenDenom"} => StorageUnchanged
  /\ last.msg.type = "GetTokenDenom"
       => (last.result = Ok /\ last.data = last.pre.token_denom)
  /\ last.msg.type = "GetBalance"
       => /\ last.msg.address \in MalformedAddrs <=> last.result = ErrAddr
          /\ last.msg.address \in Addrs
               => /\ last.result = Ok
                  /\ last.msg.address \notin DOMAIN last.pre.balances
                       => last.data = 0
                  /\ last.msg.address \in DOMAIN last.pre.balances
                       => last.data = last.pre.balances[last.msg.address]

\* GetBalance of an account without an entry was answered while another
\* account held a balance.
C15_Witness ==
  /\ last.msg.type = "GetBalance"
  /\ last.msg.address \in Addrs
  /\ last.msg.address \notin DOMAIN last.pre.balances
  /\ \E a \in Addrs : BalanceOf(last.pre.balances, a) > 0
  /\ last.result = Ok

\* `last` is a successful SetTokenDenom to another denomination.
DenomReplaced ==
  /\ last.msg.type = "SetTokenDenom"
  /\ last.result = Ok
  /\ last.msg.denom # last.pre.token_denom

(* C16: A successful SetTokenDenom from D1 to D2 changes no balance       *)
(* entry; afterwards Deposit credits only coins of D2 (a deposit          *)
(* attaching only D1 fails with InvalidAmount) and Withdraw emits its     *)
(* settlement instruction in D2, also for balances that were credited     *)
(* while D1 was current.                                                  *)
C16_DenomChangeNotRetroactive ==
  DenomReplaced
    => /\ DOMAIN balances = DOMAIN last.pre.balances
       /\ \A a \in Addrs : SameEntry(balances, last.pre.balances, a)
       /\ \A sender \in Addrs, funds \in Funds :
            LET r == execute(Storage, MessageInfo(sender, funds),
                             [type |-> "Deposit"])
            IN  /\ r.result = Ok
                     => /\ AttachedAmount(funds, last.msg.denom) > 0
                        /\ BalanceOf(r.storage.balances, sender) =
                             BalanceOf(balances, sender)
                               + AttachedAmount(funds, last.msg.denom)
                /\ (\A i \in 1..Len(funds) : funds[i].denom # last.msg.denom)
                     => r.result = ErrDepositZero
       /\ \A sender \in Addrs, m \in WithdrawMsgs :
            LET r == execute(Storage, MessageInfo(sender, << >>), m)
            IN  (m.amount > 0 /\ m.amount <= BalanceOf(balances, sender))
                  => /\ r.result = Ok
                     /\ Len(r.messages) = 1
                     /\ r.messages[1].amount =
                          <<[denom |-> last.msg.denom, amount |-> m.amount]>>

\* The denomination was replaced by another coin denomination while an
\* account held a balance credited under the old one.
C16_Witness ==
  /\ DenomReplaced
  /\ last.pre.token_denom \in CoinDenoms
  /\ last.msg.denom \in CoinDenoms
  /\ \E a \in Addrs : BalanceOf(last.pre.balances, a) > 0

(* C17: Initialization sets the Owner to the initializing caller and the  *)
(* Denomination to the supplied value, with no balance entries;           *)
(* immediately afterwards GetTokenDenom returns the supplied denomination *)
(* and only the initializing caller passes the owner check.               *)
C17_Initialization ==
  last.msg.type = "Instantiate"
    => /\ last.result = Ok
       /\ state.owner = last.sender
       /\ token_denom = last.msg.token_denom
       /\ DOMAIN balances = {}
       /\ query(Storage, [type |-> "GetTokenDenom"]).result = Ok
       /\ query(Storage, [type |-> "GetTokenDenom"]).data
            = last.msg.token_denom
       /\ \A a \in Addrs :
            validate_owner(Storage, MessageInfo(a, << >>)) = Ok
              <=> a = last.sender

\* The ledger was initialized by "user" with the denomination "utest".
C17_Witness ==
  /\ last.msg.type = "Instantiate"
  /\ last.sender = "user"
  /\ last.msg.token_denom = "utest"

(* C18: In every reachable state after initialization there is exactly    *)
(* one owner, and the owner changes in a step only if that step is a      *)
(* successful UpdateOwnership issued by the account that was the owner    *)
(* before the step; Deposit, Reward, RewardBulk, Withdraw, SetTokenDenom  *)
(* and the queries never change the owner, so a former owner can regain   *)
(* ownership only if the current owner transfers it back.                 *)
C18_OnlyOwnerChangesOwner ==
  /\ [](state.owner \in Addrs)
  /\ [][ state.owner' # state.owner
           => /\ last'.msg.type = "UpdateOwnership"
              /\ last'.result = Ok
              /\ last'.sender = state.owner
              /\ last'.msg.new_owner = state.owner' ]_vars

\* The owner has just been replaced by another account.
C18_Witness ==
  /\ last.msg.type = "UpdateOwnership"
  /\ state.owner # last.pre.state.owner
  /\ state.owner = last.msg.new_owner

\* The commands whose handlers C19 is about.
SingleWriteCommands ==
  {"Deposit", "Reward", "Withdraw", "UpdateOwnership", "SetTokenDenom"}

(* C19: In the handlers of Deposit, Reward, Withdraw, UpdateOwnership and *)
(* SetTokenDenom every failure return occurs before the first store       *)
(* write: whenever one of these commands fails (zero amount, insufficient *)
(* balance, unauthorized caller, malformed recipient or new owner), the   *)
(* owner, the denomination and all balances equal their values before the *)
(* command, without relying on a host rollback.                           *)
C19_FailureBeforeFirstWrite ==
  (last.msg.type \in SingleWriteCommands /\ last.result # Ok)
    => (StorageUnchanged /\ last.messages = << >>)

\* The owner's UpdateOwnership to a malformed new owner was answered with
\* an error while balances were held.
C19_Witness ==
  /\ last.msg.type = "UpdateOwnership"
  /\ last.sender = last.pre.state.owner
  /\ last.msg.new_owner \in MalformedAddrs
  /\ last.result = ErrAddr
  /\ \E a \in Addrs : BalanceOf(last.pre.balances, a) > 0

\* The owner-gated message in `last` would fail another validation: a
\* malformed recipient or new owner, vectors of unequal length, or an empty
\* denomination.
OtherwiseInvalid ==
  \/ last.msg.type = "Reward" /\ last.msg.recipient \in MalformedAddrs
  \/ /\ last.msg.type = "RewardBulk"
     /\ \/ ~BulkLengthsEqual
        \/ \E i \in 1..Len(last.msg.recipients) :
             last.msg.recipients[i] \in MalformedAddrs
  \/ last.msg.type = "UpdateOwnership" /\ last.msg.new_owner \in MalformedAddrs
  \/ last.msg.type = "SetTokenDenom" /\ last.msg.denom = ""

(* C20: In every owner-gated command the owner check is evaluated before  *)
(* any other validation: a non-owner caller receives Unauthorized even    *)
(* when the recipient or new owner is malformed, when the RewardBulk      *)
(* sequences have unequal lengths, or when the new denomination is empty. *)
C20_OwnerCheckFirst ==
  ( /\ last.msg.type \in OwnerGated
    /\ OtherwiseInvalid
    /\ last.sender # last.pre.state.owner )
    => last.result = ErrUnauthorized

\* A non-owner's RewardBulk with a malformed recipient and vectors of
\* unequal length was answered.
C20_Witness ==
  /\ last.msg.type = "RewardBulk"
  /\ last.sender # last.pre.state.owner
  /\ ~BulkLengthsEqual
  /\ \E i \in 1..Len(last.msg.recipients) :
       last.msg.recipients[i] \in MalformedAddrs
  /\ last.result = ErrUnauthorized

\* ---- C11 ----

\* The sum of the balance entries of b.
RECURSIVE SumOfEntries(_)
SumOfEntries(b) ==
  IF DOMAIN b = {} THEN 0
  ELSE LET a == CHOOSE x \in DOMAIN b : TRUE
       IN  b[a] + SumOfEntries([x \in (DOMAIN b) \ {a} |-> b[x]])

\* C11 as stated: in every state reached by Deposit, Reward, RewardBulk,
\* Withdraw, UpdateOwnership and SetTokenDenom commands, the sum of all
\* balance entries never exceeds the total amount deposited minus the total
\* amount withdrawn.  Violated: a Reward credits an account although nothing
\* was deposited.
C11_Conservation ==
  totals.on =>
    SumOfEntries(balances) <= totals.deposited - totals.withdrawn

\* C11, amended: the sum of all balance entries never exceeds the total
\* amount deposited plus the total amount credited by Reward and by the
\* credited items of RewardBulk, minus the total amount withdrawn.
C11_ConservationWithRewards ==
  totals.on =>
    SumOfEntries(balances)
      <= totals.deposited + totals.rewarded - totals.withdrawn

\* Deposits, rewards (a RewardBulk among them) and withdrawals have all
\* happened, the last call being a successful Withdraw that left a positive
\* balance somewhere.
C11_Witness ==
  /\ totals.on
  /\ totals.deposited > 0
  /\ totals.rewarded > 1
  /\ totals.withdrawn > 0
  /\ last.msg.type = "Withdraw"
  /\ last.result = Ok
  /\ SumOfEntries(balances) > 0

\* ---- C21 ----

\* C21: in every reachable state the sum of all balance entries equals the
\* total amount credited by successful Deposits plus the total amount
\* credited by successful Rewards and by the RewardBulk items that
\* reward_single credited, minus the total amount debited by successful
\* Withdraws.  A credit that overflows aborts its call and credits nothing,
\* so the identity holds after such a call as well.
C21_AccountingIdentity ==
  totals.on =>
    SumOfEntries(balances)
      = totals.deposited + totals.rewarded - totals.withdrawn

\* A successful RewardBulk of two positive items, after amounts were
\* deposited and withdrawn, that leaves both accounts with a balance.
C21_Witness ==
  /\ totals.on
  /\ totals.deposited > 0
  /\ totals.withdrawn > 0
  /\ last.msg.type = "RewardBulk"
  /\ last.result = Ok
  /\ Len(last.msg.amounts) = 2
  /\ \A i \in 1..2 : last.msg.amounts[i] > 0
  /\ \A a \in Addrs : BalanceOf(balances, a) > 0

\* ---- C22 ----

\* C22: no command, whoever sends it (the owner included), decreases the
\* balance of an account other than its sender; the only command that
\* decreases any balance is a successful Withdraw, and it decreases only
\* the sender's own balance.
C22_NoConfiscation ==
  \A a \in Addrs :
    ( /\ ~Idle
      /\ BalanceOf(balances, a) < BalanceOf(last.pre.balances, a) )
      => /\ last.msg.type = "Withdraw"
         /\ last.result = Ok
         /\ last.sender = a

\* The owner's own successful Withdraw while the other account holds a
\* balance: the owner's balance went down, the other account's did not.
C22_Witness ==
  /\ last.msg.type = "Withdraw"
  /\ last.result = Ok
  /\ last.sender = last.pre.state.owner
  /\ BalanceOf(balances, last.sender)
       < BalanceOf(last.pre.balances, last.sender)
  /\ \E a \in Addrs \ {last.sender} :
       /\ BalanceOf(last.pre.balances, a) > 0
       /\ BalanceOf(balances, a) = BalanceOf(last.pre.balances, a)

\* ---- C23 ----

\* C23: along every sequence of commands and for every account x, the
\* cumulative amount of the settlement instructions emitted to x never
\* exceeds the cumulative amount credited to x by its own Deposits and by
\* the Rewards and RewardBulk items naming x, and the difference of the two
\* always equals balance(x).
C23_PayoutBound ==
  payouts.on =>
    \A x \in Addrs :
      /\ payouts.paid[x] <= payouts.credited[x]
      /\ payouts.credited[x] - payouts.paid[x] = BalanceOf(balances, x)

\* An account that was credited more than once has just withdrawn part of
\* its balance, while the other account has been credited and paid too.
C23_Witness ==
  /\ payouts.on
  /\ last.msg.type = "Withdraw"
  /\ last.result = Ok
  /\ payouts.credited[last.sender] = MaxTotal
  /\ payouts.paid[last.sender] > 0
  /\ BalanceOf(balances, last.sender) > 0
  /\ \E x \in Addrs \ {last.sender} : payouts.paid[x] > 0

====
